---- MODULE Spec2Model ----
(***************************************************************************)
(* Model of lib_turtlebot.py: Math.pi2pi, PidController and the pose       *)
(* regulator Turtle._move_robot_to_pose with the pose subscriber callbacks.*)
(*                                                                         *)
(* Fixed-point units (the source computes in floats):                      *)
(*   lengths   1 unit = 1 mm                                               *)
(*   angles    1 unit = 1/8000 rad, so math.pi is 25132 units              *)
(*   gains     1 unit = 1/GainDen = 0.5                                    *)
(*   period    T = T_NUM/T_DEN seconds = 1/20 s                            *)
(*   PID outputs and velocities are kept multiplied by                     *)
(*   OutScale = GainDen*T_NUM*T_DEN = 40, which makes P*e, T*I*sum and     *)
(*   D*(e - e_prev)/T exact integers.                                      *)
(***************************************************************************)
EXTENDS Integers, Sequences, FiniteSets

VARIABLES
    \* ---- Turtle / _move_robot_to_pose
    pc,          \* position of the calling thread in the program
    shutdown,    \* rospy.is_shutdown()
    is_sim,      \* self._cfg._is_in_simulation as read by set_robot_speed
    _pose,       \* self._pose: the pose object last stored by a callback
    arg,         \* the object get_robot_pose handed to Math.pose_to_xytheta
    x, y, theta, \* locals of the tick
    goal,        \* the arguments x_goal, y_goal, theta_goal (given: theta_goal is not None)
    pids,        \* [rho, alpha, beta]: the three PidController objects
    cnt_steps,
    loc,         \* locals computed by the tick: rho, alpha, beta, sign, val_*, v, w
    cmds,        \* calls of set_robot_speed so far, oldest first
    \* ---- a PidController on its own
    pid,         \* the object (or its constructor arguments before construction)
    errs,        \* errors passed to compute so far
    ctrl,        \* value returned by the last compute
    \* ---- Math.pi2pi on its own
    ang,         \* argument
    res          \* returned value

loopVars == <<pc, shutdown, is_sim, _pose, arg, x, y, theta, goal, pids,
              cnt_steps, loc, cmds>>
pidVars == <<pid, errs, ctrl>>
mathVars == <<ang, res>>
vars == <<loopVars, pidVars, mathVars>>

----------------------------------------------------------------------------
(* Units and program constants *)

\* math.pi in angle units; kept a multiple of 4 so that pi/2 and pi/4 are exact
PI == 25132
HALF_PI == PI \div 2
QUARTER_PI == PI \div 4
TWO_PI == 2 * PI

GainDen == 2
T_NUM == 1
T_DEN == 20
OutScale == GainDen * T_NUM * T_DEN

\* MAX_V = 0.2 m/s = 200 mm/s, MAX_W = 0.6 rad/s = 4800 units/s, times OutScale
MAX_V == 200 * OutScale
MAX_W == 4800 * OutScale
MIN_V == 0
MIN_W == 0

\* defaults of x_tol = 0.01, y_tol = 0.01 (m) and theta_tol = 0.1 (rad)
X_TOL == 10
Y_TOL == 10
THETA_TOL == 800

None == "None"

Abs(n) == IF n < 0 THEN -n ELSE n
Min(a, b) == IF a < b THEN a ELSE b
Max(a, b) == IF a > b THEN a ELSE b

----------------------------------------------------------------------------
(* numpy values: [nd |-> 0, a |-> <<s>>] is a 0-d array (a scalar),        *)
(* [nd |-> 1, a |-> <<...>>] a 1-d array.                                  *)

Scalar(s) == [nd |-> 0, a |-> <<s>>]
Vector(a) == [nd |-> 1, a |-> a]
Zeros(dim) == Vector([i \in 1..dim |-> 0])

\* element i of u broadcast to length n
At(u, i) == IF Len(u.a) = 1 THEN u.a[1] ELSE u.a[i]

BroadcastLen(u, v) == Max(Len(u.a), Len(v.a))
Broadcastable(u, v) == Len(u.a) = Len(v.a) \/ Len(u.a) = 1 \/ Len(v.a) = 1

NpAdd(u, v) ==
    [nd |-> Max(u.nd, v.nd),
     a  |-> [i \in 1..BroadcastLen(u, v) |-> At(u, i) + At(v, i)]]

NpSub(u, v) ==
    [nd |-> Max(u.nd, v.nd),
     a  |-> [i \in 1..BroadcastLen(u, v) |-> At(u, i) - At(v, i)]]

NpScale(k, u) == [nd |-> u.nd, a |-> [i \in 1..Len(u.a) |-> k * u.a[i]]]

RECURSIVE SumSeq(_)
SumSeq(s) == IF s = <<>> THEN 0 ELSE s[1] + SumSeq(Tail(s))

\* np.dot: a scalar operand multiplies elementwise, two 1-d arrays give the
\* inner product (a scalar)
NpDot(u, v) ==
    IF u.nd = 0 \/ v.nd = 0
    THEN [nd |-> Max(u.nd, v.nd),
          a  |-> [i \in 1..BroadcastLen(u, v) |-> At(u, i) * At(v, i)]]
    ELSE Scalar(SumSeq([i \in 1..Len(u.a) |-> u.a[i] * v.a[i]]))

----------------------------------------------------------------------------
(* Math *)

\* a mutant of pi2pi: the half-open end on the other side
pi2pi_upper(t) == PI - ((PI - t) % TWO_PI)

pi2pi(t) == ((t + PI) % TWO_PI) - PI

\* floor of the square root of n, known to lie in lo..hi
RECURSIVE SqrtIn(_, _, _)
SqrtIn(n, lo, hi) ==
    IF lo = hi THEN lo
    ELSE LET mid == (lo + hi + 1) \div 2
         IN  IF mid * mid <= n THEN SqrtIn(n, mid, hi) ELSE SqrtIn(n, lo, mid - 1)

\* ((x1 - x2)**2 + (y1 - y2)**2)**0.5, cut to whole units; it is at most
\* |x1 - x2| + |y1 - y2|
calc_dist(x1, y1, x2, y2) ==
    SqrtIn((x1 - x2) * (x1 - x2) + (y1 - y2) * (y1 - y2),
           0, Abs(x1 - x2) + Abs(y1 - y2))

\* math.atan2 on the directions the model uses: the axes, the diagonals, (0, 0)
atan2(dy, dx) ==
    CASE dy = 0 /\ dx >= 0 -> 0
      [] dy = 0 /\ dx < 0  -> PI
      [] dx = 0 /\ dy > 0  -> HALF_PI
      [] dx = 0 /\ dy < 0  -> -HALF_PI
      [] dy > 0 /\ dx = dy -> QUARTER_PI
      [] dy > 0 /\ dx = -dy -> 3 * QUARTER_PI
      [] dy < 0 /\ dx = -dy -> -QUARTER_PI
      [] dy < 0 /\ dx = dy -> -3 * QUARTER_PI

----------------------------------------------------------------------------
(* PidController *)

\* Python values given as gains: a float, an int or an np.ndarray
Float(g) == [kind |-> "float", val |-> Scalar(g)]
Int_(g) == [kind |-> "int", val |-> Scalar(g)]
NdArray(a) == [kind |-> "ndarray", val |-> Vector(a)]
Missing == [kind |-> "missing", val |-> Scalar(0)]

\* b1: all isinstance(d, float)
AllFloat(P, I, D) == \A d \in {P, I, D} : d.kind = "float"
\* b2: all isinstance(d, np.ndarray)
AllNdArray(P, I, D) == \A d \in {P, I, D} : d.kind = "ndarray"

\* the check of lines 152-156: FALSE means RuntimeError
PidTypeCheck(P, I, D) == AllFloat(P, I, D) \/ AllNdArray(P, I, D)

PidDim(P, I, D) == IF AllFloat(P, I, D) THEN 1 ELSE Len(P.val.a)

\* __init__ raises: T not given (TypeError), the type check (RuntimeError), or
\* np.zeros(dim) + gain cannot be broadcast (ValueError)
PidInitRaises(T, P, I, D) ==
    \/ T = Missing
    \/ ~PidTypeCheck(P, I, D)
    \/ \E d \in {P, I, D} : ~Broadcastable(Zeros(PidDim(P, I, D)), d.val)

\* the object __init__ leaves when it does not raise
PidInit(T, P, I, D) ==
    LET dim == PidDim(P, I, D) IN
    [_T |-> T,
     _P |-> NpAdd(Zeros(dim), P.val),
     _I |-> NpAdd(Zeros(dim), I.val),
     _D |-> NpAdd(Zeros(dim), D.val),
     _err_inte |-> Zeros(dim),
     _err_prev |-> Zeros(dim)]

\* a mutant of PidIntegrate: the integral term uses the sum before this error
PidIntegrate_late(inte, err) == inte

\* self._err_inte += err (in place: the result keeps the accumulator's shape)
PidIntegrate(inte, err) == [NpAdd(inte, err) EXCEPT !.nd = inte.nd]

\* self._err_prev = err
PidRemember(prev, err) == err

\* compute(err): <<the object afterwards, ctrl_val * OutScale>>
PidCompute(self, err) ==
    LET inte   == PidIntegrate(self._err_inte, err)
        p_term == NpScale(self._T.num * self._T.den, NpDot(err, self._P))
        i_term == NpScale(self._T.num * self._T.num, NpDot(inte, self._I))
        d_term == NpScale(self._T.den * self._T.den,
                          NpDot(NpSub(err, self._err_prev), self._D))
    IN  <<[self EXCEPT !._err_inte = inte,
                       !._err_prev = PidRemember(self._err_prev, err)],
          NpAdd(NpAdd(p_term, i_term), d_term)>>

\* control period of the regulator, line 379
T == [num |-> T_NUM, den |-> T_DEN]

----------------------------------------------------------------------------
(* A PidController on its own: any gains, then compute calls *)

MaxCalls == 2

GainInputs ==
    {Float(0), Float(1), Float(-1), Int_(0), Int_(2),
     NdArray(<<1>>), NdArray(<<1, 2>>), NdArray(<<0, -1>>), NdArray(<<1, 0, 2>>)}

ErrVals == {-3, 0, 2}

\* errors passed to compute: a scalar for a one-dimensional controller (as the
\* regulator does), else a vector of the controller's dimension
ErrInputs(self) ==
    IF Len(self._P.a) = 1
    THEN {Scalar(e) : e \in ErrVals}
    ELSE {Vector(a) : a \in [1..Len(self._P.a) -> ErrVals]}

\* gains of one common length: np.dot is defined in compute
WellShaped(self) ==
    Len(self._I.a) = Len(self._P.a) /\ Len(self._D.a) = Len(self._P.a)

PidIdle == pid = None /\ errs = <<>> /\ ctrl = None
LoopIdle ==
    /\ pc = "idle" /\ shutdown = FALSE /\ is_sim = FALSE
    /\ _pose = [x |-> 0, y |-> 0, theta |-> 0]
    /\ arg = [x |-> 0, y |-> 0, theta |-> 0] /\ x = 0 /\ y = 0 /\ theta = 0
    /\ goal = [x |-> 0, y |-> 0, given |-> FALSE, theta |-> 0]
    /\ pids = None /\ cnt_steps = 0
    /\ loc = [rho |-> 0] /\ cmds = <<>>
NoResult == [done |-> FALSE, val |-> 0]
MathIdle == ang = 0 /\ res = NoResult

InitPid ==
    /\ pid \in [state : {"args"}, P : GainInputs, I : GainInputs, D : GainInputs]
    /\ errs = <<>>
    /\ ctrl = None
    /\ LoopIdle /\ MathIdle

\* PidController(T, P, I, D)
Construct ==
    /\ pid.state = "args"
    /\ pid' = IF PidInitRaises(T, pid.P, pid.I, pid.D)
              THEN [pid EXCEPT !.state = "raised"]
              ELSE [state |-> "ok", P |-> pid.P, I |-> pid.I, D |-> pid.D,
                    obj |-> PidInit(T, pid.P, pid.I, pid.D)]
    /\ UNCHANGED <<errs, ctrl, loopVars, mathVars>>

\* pid.compute(err)
Compute ==
    /\ pid.state = "ok"
    /\ WellShaped(pid.obj)
    /\ Len(errs) < MaxCalls
    /\ \E err \in ErrInputs(pid.obj) :
         LET r == PidCompute(pid.obj, err) IN
         /\ pid' = [pid EXCEPT !.obj = r[1]]
         /\ ctrl' = r[2]
         /\ errs' = Append(errs, err)
    /\ UNCHANGED <<loopVars, mathVars>>

NextPid == Construct \/ Compute
SpecPid == InitPid /\ [][NextPid]_vars

----------------------------------------------------------------------------
(* Math.pi2pi on its own *)

MaxTurns == 2

\* angles around every multiple of pi/4 within MaxTurns turns either way
AngleInputs ==
    {k * QUARTER_PI + d : k \in (-8 * MaxTurns)..(8 * MaxTurns), d \in {-1, 0, 1}}

InitMath == ang \in AngleInputs /\ res = NoResult /\ LoopIdle /\ PidIdle

CallPi2pi ==
    /\ ~res.done
    /\ res' = [done |-> TRUE, val |-> pi2pi(ang)]
    /\ UNCHANGED <<ang, loopVars, pidVars>>

NextMath == CallPi2pi
SpecMath == InitMath /\ [][NextMath]_vars

----------------------------------------------------------------------------
(* Turtle: the pose regulator _move_robot_to_pose *)

\* Pose(): position (0, 0, 0), and the zero quaternion reads as yaw 0
Pose0 == [x |-> 0, y |-> 0, theta |-> 0]

\* k_vals = [0.5, 1.0, -0.5]
K_RHO == Float(1)
K_ALPHA == Float(2)
K_BETA == Float(-1)

\* lines 387-391: no target heading means theta_goal = 0 and k_beta = 0 (an int)
theta_goal_of(g) == IF g.given THEN g.theta ELSE 0
k_beta_of(g) == IF g.given THEN K_BETA ELSE Int_(0)

\* the constructor calls of lines 395-397: T is not passed, D is the default 0
PidArgs(g) ==
    [rho   |-> [T |-> Missing, P |-> K_RHO, I |-> Int_(0), D |-> Int_(0)],
     alpha |-> [T |-> Missing, P |-> K_ALPHA, I |-> Int_(0), D |-> Int_(0)],
     beta  |-> [T |-> Missing, P |-> k_beta_of(g), I |-> Int_(0), D |-> Int_(0)]]

\* names class PidController defines (lines 139-183)
PidControllerAttrs == {"__init__", "compute"}

\* lines 378-397 raise: set_control_period is no attribute of the class, or a
\* constructor raises
SetupRaises(g) ==
    \/ "set_control_period" \notin PidControllerAttrs
    \/ \E n \in {"rho", "alpha", "beta"} :
         LET a == PidArgs(g)[n] IN PidInitRaises(a.T, a.P, a.I, a.D)

\* the three controllers with the period of line 379 and the gains of lines
\* 385-397, as lines 160-165 initialise them
Compensators(g) ==
    [n \in {"rho", "alpha", "beta"} |->
        LET a == PidArgs(g)[n] IN PidInit(T, a.P, a.I, a.D)]

\* line 407
Bearing(px, py, ptheta, g) == pi2pi(atan2(g.y - py, g.x - px) - ptheta)

\* line 408
HeadingError(ptheta, alpha, g) == -ptheta - alpha + theta_goal_of(g)

\* a mutant of Direction: the goal counts as behind from pi/2 on, not beyond it
Direction_from_half_pi(alpha, beta) ==
    IF Abs(alpha) >= HALF_PI
    THEN [alpha |-> pi2pi(PI - alpha), beta |-> pi2pi(PI - beta), sign |-> -1]
    ELSE [alpha |-> alpha, beta |-> beta, sign |-> 1]

\* lines 411-415
Direction(alpha, beta) ==
    IF Abs(alpha) > HALF_PI
    THEN [alpha |-> pi2pi(PI - alpha), beta |-> pi2pi(PI - beta), sign |-> -1]
    ELSE [alpha |-> alpha, beta |-> beta, sign |-> 1]

\* a mutant of Saturate: the lower limit is applied, the upper one is not
Saturate_no_upper(u, lo, hi) == Max(lo, Abs(u)) * (IF u > 0 THEN 1 ELSE -1)

\* lines 427-430
Saturate(u, lo, hi) == Max(lo, Min(Abs(u), hi)) * (IF u > 0 THEN 1 ELSE -1)

\* a mutant of StopCond: the heading is not tested when no heading was asked for
StopCond_point(px, py, ptheta, g) ==
    /\ Abs(px - g.x) < X_TOL
    /\ Abs(py - g.y) < Y_TOL
    /\ (g.given => Abs(ptheta - theta_goal_of(g)) < THETA_TOL)

\* lines 441-443
StopCond(px, py, ptheta, g) ==
    /\ Abs(px - g.x) < X_TOL
    /\ Abs(py - g.y) < Y_TOL
    /\ Abs(ptheta - theta_goal_of(g)) < THETA_TOL

\* set_robot_speed(v, w): the call and the Twist it publishes
Command(v, w, site) ==
    [v |-> v, w |-> w, site |-> site,
     twist |-> [linear_x |-> v, angular_z |-> IF is_sim THEN -w ELSE w]]

----------------------------------------------------------------------------
(* Inputs of the regulator *)

MaxTicks == 2

Goals ==
    {[x |-> 1000, y |-> 0, given |-> FALSE, theta |-> 0],
     [x |-> 0, y |-> 0, given |-> TRUE, theta |-> HALF_PI],
     [x |-> 0, y |-> 0, given |-> FALSE, theta |-> 0]}

\* <<x_goal - x, y_goal - y, theta - theta_goal>> of the poses the callbacks deliver
RelPoses ==
    {<<1000, 0, 700>>,      \* far ahead, slightly off the heading
     <<-1000, 0, 0>>,       \* far behind
     <<0, 500, 0>>,         \* bearing exactly pi/2 when theta_goal = 0
     <<5, -5, 700>>,        \* inside every tolerance
     <<5, -5, -800>>,       \* position inside, heading exactly at theta_tol
     <<10, 0, 0>>,          \* x exactly at x_tol
     <<0, 0, HALF_PI>>,     \* on the goal, heading off by pi/2
     <<-5, 5, 0>>}          \* near, position inside, heading right

PoseInputs(g) ==
    {[x |-> g.x - r[1], y |-> g.y - r[2], theta |-> theta_goal_of(g) + r[3]] :
        r \in RelPoses}

----------------------------------------------------------------------------
(* Steps *)

\* a mutant of ReadField: the field is read through self._pose again
ReadField_shared(obj, shared, f) == shared[f]

\* Math.pose_to_xytheta reads a field of the object it was handed
ReadField(obj, shared, f) == obj[f]

\* a mutant of AfterLoop: the stop command is sent only after a break
AfterLoop_only_break(broke) == IF broke THEN "stop" ELSE "done"

\* a mutant of AfterLoop: the stop test returns instead of breaking
AfterLoop_return(broke) == IF broke THEN "done" ELSE "stop"

\* where control goes when the while loop ends, by break or by its condition
AfterLoop(broke) == "stop"

NoLoc == [rho |-> 0, alpha |-> 0, beta |-> 0, sign |-> 1,
          val_rho |-> 0, val_alpha |-> 0, val_beta |-> 0,
          v_raw |-> 0, w_raw |-> 0, v |-> 0, w |-> 0]

\* _callback_sub_pose_env_sim / _callback_sub_pose_env_real: self._pose = msg pose
\* (self._twist, stored as well, is read nowhere)
CallbackPose ==
    /\ pc # "idle"
    /\ \E p \in PoseInputs(goal) : _pose' = p
    /\ UNCHANGED <<pc, shutdown, is_sim, arg, x, y, theta, goal, pids,
                   cnt_steps, loc, cmds, pidVars, mathVars>>

\* the node is shut down from outside
ShutdownSignal ==
    /\ pc # "idle"
    /\ ~shutdown
    /\ shutdown' = TRUE
    /\ UNCHANGED <<pc, is_sim, _pose, arg, x, y, theta, goal, pids,
                   cnt_steps, loc, cmds, pidVars, mathVars>>

\* lines 378-397
Setup ==
    /\ pc = "setup"
    /\ IF SetupRaises(goal)
       THEN pc' = "raised" /\ pids' = pids
       ELSE pc' = "top" /\ pids' = Compensators(goal)
    /\ UNCHANGED <<shutdown, is_sim, _pose, arg, x, y, theta, goal,
                   cnt_steps, loc, cmds, pidVars, mathVars>>

\* line 401, then 402 and the call of get_robot_pose (line 254 evaluates self._pose)
LoopTop ==
    /\ pc = "top"
    /\ IF shutdown
       THEN pc' = AfterLoop(FALSE) /\ UNCHANGED <<cnt_steps, arg>>
       ELSE /\ cnt_steps < MaxTicks
            /\ cnt_steps' = cnt_steps + 1
            /\ arg' = _pose
            /\ pc' = "getx"
    /\ UNCHANGED <<shutdown, is_sim, _pose, x, y, theta, goal, pids, loc, cmds,
                   pidVars, mathVars>>

\* lines 73-76, one field at a time
GetX ==
    /\ pc = "getx"
    /\ x' = ReadField(arg, _pose, "x")
    /\ pc' = "gety"
    /\ UNCHANGED <<shutdown, is_sim, _pose, arg, y, theta, goal, pids,
                   cnt_steps, loc, cmds, pidVars, mathVars>>

GetY ==
    /\ pc = "gety"
    /\ y' = ReadField(arg, _pose, "y")
    /\ pc' = "gettheta"
    /\ UNCHANGED <<shutdown, is_sim, _pose, arg, x, theta, goal, pids,
                   cnt_steps, loc, cmds, pidVars, mathVars>>

GetTheta ==
    /\ pc = "gettheta"
    /\ theta' = ReadField(arg, _pose, "theta")
    /\ pc' = "tick"
    /\ UNCHANGED <<shutdown, is_sim, _pose, arg, x, y, goal, pids,
                   cnt_steps, loc, cmds, pidVars, mathVars>>

\* lines 406-444: errors, direction, the three compute calls, saturation,
\* set_robot_speed, the sleep and the stop test
Tick ==
    /\ pc = "tick"
    /\ LET rho    == calc_dist(x, y, goal.x, goal.y)
           alpha0 == Bearing(x, y, theta, goal)
           beta0  == HeadingError(theta, alpha0, goal)
           dir    == Direction(alpha0, beta0)
           r_rho   == PidCompute(pids.rho, Scalar(rho))
           r_alpha == PidCompute(pids.alpha, Scalar(dir.alpha))
           r_beta  == PidCompute(pids.beta, Scalar(dir.beta))
           val_rho   == r_rho[2].a[1]
           val_alpha == r_alpha[2].a[1]
           val_beta  == r_beta[2].a[1]
           v_raw == dir.sign * val_rho
           w_raw == dir.sign * (val_alpha + val_beta)
           v == Saturate(v_raw, MIN_V, MAX_V)
           w == Saturate(w_raw, MIN_W, MAX_W)
       IN /\ pids' = [rho |-> r_rho[1], alpha |-> r_alpha[1], beta |-> r_beta[1]]
          /\ loc' = [rho |-> rho, alpha |-> dir.alpha, beta |-> dir.beta,
                     sign |-> dir.sign, val_rho |-> val_rho,
                     val_alpha |-> val_alpha, val_beta |-> val_beta,
                     v_raw |-> v_raw, w_raw |-> w_raw, v |-> v, w |-> w]
          /\ cmds' = Append(cmds, Command(v, w, "tick"))
    /\ pc' = IF StopCond(x, y, theta, goal) THEN AfterLoop(TRUE) ELSE "top"
    /\ UNCHANGED <<shutdown, is_sim, _pose, arg, x, y, theta, goal,
                   cnt_steps, pidVars, mathVars>>

\* line 446
Stop ==
    /\ pc = "stop"
    /\ cmds' = Append(cmds, Command(0, 0, "end"))
    /\ pc' = "done"
    /\ UNCHANGED <<shutdown, is_sim, _pose, arg, x, y, theta, goal, pids,
                   cnt_steps, loc, pidVars, mathVars>>

\* The loop of lines 399-447 from its entry, with the three compensators in the
\* state lines 160-165 give them for the gains of lines 385-397 and T of line
\* 379. (As written, lines 380 and 395-397 raise before the loop: SpecMove below
\* follows a call from its first line.)
Init ==
    /\ pc = "top"
    /\ shutdown = FALSE
    /\ is_sim \in BOOLEAN
    /\ _pose = Pose0
    /\ arg = Pose0
    /\ x = 0 /\ y = 0 /\ theta = 0
    /\ goal \in Goals
    /\ pids = Compensators(goal)
    /\ cnt_steps = 0
    /\ loc = NoLoc
    /\ cmds = <<>>
    /\ PidIdle /\ MathIdle

Next ==
    \/ CallbackPose
    \/ ShutdownSignal
    \/ LoopTop
    \/ GetX
    \/ GetY
    \/ GetTheta
    \/ Tick
    \/ Stop

Spec == Init /\ [][Next]_vars

\* a call of move_to_pose from its first line
InitMove ==
    /\ pc = "setup"
    /\ shutdown = FALSE
    /\ is_sim \in BOOLEAN
    /\ _pose = Pose0
    /\ arg = Pose0
    /\ x = 0 /\ y = 0 /\ theta = 0
    /\ goal \in Goals
    /\ pids = None
    /\ cnt_steps = 0
    /\ loc = NoLoc
    /\ cmds = <<>>
    /\ PidIdle /\ MathIdle

NextMove == Setup \/ CallbackPose \/ ShutdownSignal
SpecMove == InitMove /\ [][NextMove]_vars /\ WF_vars(Setup)

----------------------------------------------------------------------------
(* Properties *)

\* the termination predicate, written out for the pose the tick read
WithinPosition == Abs(x - goal.x) < X_TOL /\ Abs(y - goal.y) < Y_TOL
WithinTolerance ==
    WithinPosition /\ Abs(theta - (IF goal.given THEN goal.theta ELSE 0)) < THETA_TOL

Driving == pc \in {"top", "getx", "gety", "gettheta", "tick"}
\* a tick has run to its end and its locals are still in place
TickDone == cnt_steps > 0 /\ pc \in {"top", "stop", "done"}
StopCommand(c) == c.v = 0 /\ c.w = 0 /\ c.site = "end"
Sign(n) == IF n > 0 THEN 1 ELSE IF n < 0 THEN -1 ELSE 0

C3_Converges ==
    []~shutdown =>
        ((pc = "setup" /\ goal = [x |-> 1000, y |-> 0, given |-> FALSE, theta |-> 0])
            ~> (pc = "done" /\ cmds # <<>> /\ StopCommand(cmds[Len(cmds)])))

EndedByShutdown == pc = "done" /\ ~(cnt_steps > 0 /\ WithinTolerance)

C5_ConstructsSameShape ==
    pid.state \in {"ok", "raised"} =>
        LET gains == {pid.P, pid.I, pid.D}
            same  == \/ \A g \in gains : g.kind \in {"float", "int"}
                     \/ /\ \A g \in gains : g.kind = "ndarray"
                        /\ \A g, h \in gains : Len(g.val.a) = Len(h.val.a)
        IN  (pid.state = "ok") <=> same

\* C7: after compute calls with errors e_1..e_n the last one returned
\* P*e_n + T*I*(e_1+...+e_n) + D*(e_n - e_(n-1))/T (times OutScale, products
\* being inner products), the accumulator is e_1+...+e_n and the previous error
\* is e_n; with P = D = 0 and a constant error the second call returns 2*T*I*e.
C7_PidClosedForm ==
    (pid.state = "ok" /\ errs # <<>>) =>
        LET o   == pid.obj
            n   == Len(errs)
            dim == Len(o._P.a)
            E(k, i) == IF k = 0 THEN 0 ELSE At(errs[k], i)
            S(i) == SumSeq([k \in 1..n |-> E(k, i)])
            term(i) == T_NUM * T_DEN * o._P.a[i] * E(n, i)
                       + T_NUM * T_NUM * o._I.a[i] * S(i)
                       + T_DEN * T_DEN * o._D.a[i] * (E(n, i) - E(n - 1, i))
        IN  /\ ctrl.a = <<SumSeq([i \in 1..dim |-> term(i)])>>
            /\ o._err_inte.a = [i \in 1..dim |-> S(i)]
            /\ o._err_prev = errs[n]
            /\ (n = 2 /\ errs[1] = errs[2]
                  /\ \A i \in 1..dim : o._P.a[i] = 0 /\ o._D.a[i] = 0) =>
                 ctrl.a = <<SumSeq([i \in 1..dim |->
                                       2 * T_NUM * T_NUM * o._I.a[i] * E(1, i)])>>

C7_Witness ==
    /\ pid.state = "ok"
    /\ pid.P = Float(0) /\ pid.I = Float(1) /\ pid.D = Float(0)
    /\ errs = <<Scalar(2), Scalar(2)>>
    /\ ctrl.a = <<4>>

\* C9 as claimed: pi2pi returns a value greater than -pi and at most pi.
C9_HalfOpenAtMinusPi == res.done => (res.val > -PI /\ res.val <= PI)

\* C9 amended: pi2pi returns a value from -pi to pi that differs from its
\* argument by a multiple of 2*pi, and an odd multiple of pi gives -pi.
C9_ClosedRange ==
    res.done =>
        /\ res.val >= -PI /\ res.val <= PI
        /\ (res.val - ang) % TWO_PI = 0
        /\ (ang - PI) % TWO_PI = 0 => res.val = -PI

C9_Witness == res.done /\ ang = 3 * PI /\ res.val = -PI

====
